---------------------------- MODULE Spec2Model ----------------------------
(***************************************************************************)
(* Amazon DealHunter (src/Amazon_Scarpper.py): the price normaliser, the   *)
(* per-category extraction loop of get_best_sellers, the aggregation of    *)
(* scrape_all_categories and the Streamlit script that keeps the latest    *)
(* results, as state machines.                                             *)
(*                                                                         *)
(* Text is a sequence of one-character strings.  "R" stands for the rupee  *)
(* sign U+20B9, "x" for any character that is neither a digit, a comma, a  *)
(* point, the rupee sign nor white space.  A parsed price is a decimal     *)
(* number [m, e] = m / 10^e without trailing zeros; every price text of    *)
(* the model has so few digits that the float Python builds is exact.      *)
(***************************************************************************)
EXTENDS Integers, Sequences, FiniteSets, TLC

VARIABLES
    price_text,      \* parse_price_text: the argument
    parsed,          \* parse_price_text: "pending", or the value returned
    product_nodes,   \* get_best_sellers: the candidate nodes of the page
    max_price,       \* get_best_sellers: the threshold
    idx,             \* get_best_sellers: the node the loop is at
    seen,            \* get_best_sellers: the keys seen so far
    products,        \* get_best_sellers: the records appended so far
    outcomes,        \* history: what the loop did with each node
    stage,           \* position of the running function or script
    cat,             \* scrape_all_categories: the category being scraped
    all_items,       \* scrape_all_categories: the accumulated records
    results,         \* history: what get_best_sellers returned per category
    failures,        \* history: the categories whose scrape raised
    latest_df,       \* st.session_state["latest_df"]: whether set, and its rows
    csv_file,        \* bestsellers_latest.csv: whether it exists, and its rows
    df,              \* the frame scrape_all_categories returned, as the script holds it
    last_scrape,     \* history: the most recent live scrape's catalog, in arrival order
    widgets,         \* the sidebar and button values of the running script
    view,            \* the ranked frame last handed to a table or a mail
    view_of,         \* history: what the ranked view was taken of
    runs             \* script runs so far

vars == <<price_text, parsed, product_nodes, max_price, idx, seen, products,
          outcomes, stage, cat, all_items, results, failures, latest_df,
          csv_file, df, last_scrape, widgets, view, view_of, runs>>

pageVars == <<product_nodes, max_price, idx, seen, products, outcomes>>
parseVars == <<price_text, parsed>>
scrapeVars == <<cat, all_items, results, failures>>
appVars == <<latest_df, csv_file, df, last_scrape, widgets, view, view_of, runs>>

\* Python's None where a text is expected, a selector that matched nothing,
\* and the None parse_price_text returns: each of the shape of the values it
\* stands among, so that it compares with them.
None == <<"None">>
Absent == <<"Absent">>
NoPrice == [m |-> -1, e |-> 0]
NoLink == [normal |-> FALSE, href |-> Absent, text |-> Absent]

-----------------------------------------------------------------------------
(* Text helpers *)

Digits == {"0", "1", "2", "3", "4", "5", "6", "7", "8", "9"}

DigitVal(c) ==
    CASE c = "0" -> 0 [] c = "1" -> 1 [] c = "2" -> 2 [] c = "3" -> 3
      [] c = "4" -> 4 [] c = "5" -> 5 [] c = "6" -> 6 [] c = "7" -> 7
      [] c = "8" -> 8 [] c = "9" -> 9

Min(a, b) == IF a <= b THEN a ELSE b

RECURSIVE Pow10(_)
Pow10(n) == IF n = 0 THEN 1 ELSE 10 * Pow10(n - 1)

Without(s, ch) == SelectSeq(s, LAMBDA c : c # ch)

Count(s, S) == Len(SelectSeq(s, LAMBDA c : c \in S))

\* str.startswith
StartsWith(s, p) == Len(s) >= Len(p) /\ SubSeq(s, 1, Len(p)) = p

\* re.search of a literal
Contains(s, p) ==
    \E i \in 1..(Len(s) + 1 - Len(p)) : SubSeq(s, i, i + Len(p) - 1) = p

\* str.split(ch)[0]
BeforeFirst(s, ch) ==
    IF \E i \in 1..Len(s) : s[i] = ch
    THEN SubSeq(s, 1, (CHOOSE i \in 1..Len(s) :
                          s[i] = ch /\ \A k \in 1..(i - 1) : s[k] # ch) - 1)
    ELSE s

\* str.strip, as get_text(strip=True) applies it
RECURSIVE Strip(_)
Strip(s) ==
    IF s = <<>> THEN s
    ELSE IF Head(s) = " " THEN Strip(Tail(s))
    ELSE IF s[Len(s)] = " " THEN Strip(SubSeq(s, 1, Len(s) - 1))
    ELSE s

-----------------------------------------------------------------------------
(* parse_price_text *)

\* the character class [\d\.,]
InClass(c) == c \in Digits \/ c = "." \/ c = ","

\* re.search: the leftmost position where the class matches, 0 for no match
RECURSIVE SearchStart(_, _)
SearchStart(s, i) ==
    IF i > Len(s) THEN 0
    ELSE IF InClass(s[i]) THEN i
    ELSE SearchStart(s, i + 1)

\* the greedy +: the match runs on while the class matches
RECURSIVE RunEnd(_, _)
RunEnd(s, j) ==
    IF j < Len(s) /\ InClass(s[j + 1]) THEN RunEnd(s, j + 1) ELSE j

RECURSIVE DigitsValue(_)
DigitsValue(ds) ==
    IF ds = <<>> THEN 0
    ELSE 10 * DigitsValue(SubSeq(ds, 1, Len(ds) - 1)) + DigitVal(ds[Len(ds)])

RECURSIVE Normal(_, _)
Normal(m, e) ==
    IF e > 0 /\ m % 10 = 0 THEN Normal(m \div 10, e - 1) ELSE [m |-> m, e |-> e]

\* float(raw): a decimal numeral, or ValueError, which the except turns to None
PyFloat(raw) ==
    IF \/ \E k \in 1..Len(raw) : raw[k] \notin Digits \cup {"."}
       \/ Count(raw, {"."}) > 1 \/ Count(raw, Digits) = 0
    THEN NoPrice
    ELSE LET whole == BeforeFirst(raw, ".")
             frac  == SubSeq(raw, Len(whole) + 2, Len(raw))
         IN  Normal(DigitsValue(whole \o frac), Len(frac))

\* a variant that leaves the thousands separators in
ParseNoCommaStrip(text) ==
    IF text = <<>> THEN NoPrice
    ELSE LET s == Without(text, "R")
             i == SearchStart(s, 1)
         IN  IF i = 0 THEN NoPrice
             ELSE PyFloat(SubSeq(s, i, RunEnd(s, i)))

parse_price_text(text) ==
    IF text = <<>> THEN NoPrice
    ELSE LET s == Without(text, "R")
             i == SearchStart(s, 1)
         IN  IF i = 0 THEN NoPrice
             ELSE PyFloat(Without(SubSeq(s, i, RunEnd(s, i)), ","))

\* a <= b on parsed prices
NumLeq(a, b) == a.m * Pow10(b.e) <= b.m * Pow10(a.e)

Int2Num(n) == [m |-> n, e |-> 0]

-----------------------------------------------------------------------------
(* get_best_sellers: one candidate node *)

\* A node is [name_tag, anchors, price_tag, rating_tag, strings]: the text of
\* the first title-like, price-like and rating-like element (Absent when no
\* element matches), the node's <a> elements in document order, each
\* [normal, href, text], and the node's text nodes in document order.

KeyPrefixLen == 80

Origin ==
    <<"h", "t", "t", "p", "s", ":", "/", "/", "w", "w", "w", ".",
      "a", "m", "a", "z", "o", "n", ".", "i", "n">>

NotAvailable == <<"N", "/", "A">>

\* select_one("a.a-link-normal, ..."), else find("a", href=re.compile("/dp/"))
link_tag(node) ==
    LET as == node.anchors
        normal == {i \in 1..Len(as) : as[i].normal}
        dp == {i \in 1..Len(as) :
                 as[i].href # Absent /\ Contains(as[i].href, <<"/", "d", "p", "/">>)}
        first(S) == CHOOSE i \in S : \A k \in S : i <= k
    IN  IF normal # {} THEN as[first(normal)]
        ELSE IF dp # {} THEN as[first(dp)]
        ELSE NoLink

url_val(node) ==
    LET link == link_tag(node)
    IN  IF link # NoLink /\ link.href # Absent
        THEN IF StartsWith(link.href, <<"h", "t", "t", "p">>)
             THEN link.href
             ELSE Origin \o BeforeFirst(link.href, "?")
        ELSE None

\* a variant that prefers the link text to the title
NameLinkFirst(node) ==
    IF link_tag(node) # NoLink THEN Strip(link_tag(node).text)
    ELSE IF node.name_tag # Absent THEN Strip(node.name_tag)
    ELSE None

\* name: the title-like element's text, else the link's
NameOf(node) ==
    IF node.name_tag # Absent THEN Strip(node.name_tag)
    ELSE IF link_tag(node) # NoLink THEN Strip(link_tag(node).text)
    ELSE None

\* a variant that keys on the whole name
DedupKeyWholeName(name, url) == <<name, url>>

\* uniq = (name[:80], url_val)
DedupKey(name, url) == <<SubSeq(name, 1, Min(Len(name), KeyPrefixLen)), url>>

\* re.compile("R\s*\d").search(s)
LooksLikePrice(s) ==
    \E i \in 1..Len(s) : \E j \in (i + 1)..Len(s) :
        /\ s[i] = "R"
        /\ s[j] \in Digits
        /\ \A k \in (i + 1)..(j - 1) : s[k] = " "

\* node.find(text=...): the first text node the pattern matches
SiblingPrice(node) ==
    LET hits == {i \in 1..Len(node.strings) : LooksLikePrice(node.strings[i])}
    IN  IF hits = {} THEN None
        ELSE node.strings[CHOOSE i \in hits : \A k \in hits : i <= k]

\* price: the price-like element's text parsed, else the first text node
\* that looks like a price, parsed whole
PriceOf(node) ==
    LET price == IF node.price_tag # Absent
                 THEN parse_price_text(Strip(node.price_tag))
                 ELSE NoPrice
    IN  IF price = NoPrice
        THEN IF SiblingPrice(node) # None
             THEN parse_price_text(SiblingPrice(node))
             ELSE NoPrice
        ELSE price

RatingOf(node) ==
    IF node.rating_tag # Absent THEN Strip(node.rating_tag) ELSE NotAvailable

\* a variant that also rejects a price equal to the threshold
OverStrict(price, limit) == ~ NumLeq(price, Int2Num(limit)) \/ price = Int2Num(limit)

\* price > max_price
Over(price, limit) == ~ NumLeq(price, Int2Num(limit))

\* a variant of the loop body that tests the price before the key
LoopBodyFilterFirst(node, sn, ps, limit) ==
    LET name == NameOf(node)
        uniq == DedupKey(name, url_val(node))
        price == PriceOf(node)
        out(step) == [step |-> step, name |-> name, url |-> url_val(node),
                      price |-> IF step \in {"no_price", "appended"}
                                THEN price ELSE NoPrice]
    IN  IF name = None \/ name = <<>>
        THEN [seen |-> sn, products |-> ps, outcome |-> out("no_name")]
        ELSE IF price = NoPrice \/ Over(price, limit)
        THEN [seen |-> sn, products |-> ps, outcome |-> out("no_price")]
        ELSE IF uniq \in sn
        THEN [seen |-> sn, products |-> ps, outcome |-> out("duplicate")]
        ELSE [seen |-> sn \cup {uniq},
              products |-> Append(ps, [name |-> name, price |-> price,
                                       rating |-> RatingOf(node),
                                       url |-> IF url_val(node) = None
                                               THEN NotAvailable
                                               ELSE url_val(node)]),
              outcome |-> out("appended")]

\* One pass of the loop body over a node, from the keys seen and the records
\* appended so far: the new keys, the new records and what was done.
LoopBody(node, sn, ps, limit) ==
    LET name == NameOf(node)
        uniq == DedupKey(name, url_val(node))
        price == PriceOf(node)
        out(step) == [step |-> step, name |-> name, url |-> url_val(node),
                      price |-> IF step \in {"no_price", "appended"}
                                THEN price ELSE NoPrice]
    IN  IF name = None \/ name = <<>>
        THEN [seen |-> sn, products |-> ps, outcome |-> out("no_name")]
        ELSE IF uniq \in sn
        THEN [seen |-> sn, products |-> ps, outcome |-> out("duplicate")]
        ELSE IF price = NoPrice \/ Over(price, limit)
        THEN [seen |-> sn \cup {uniq}, products |-> ps,
              outcome |-> out("no_price")]
        ELSE [seen |-> sn \cup {uniq},
              products |-> Append(ps, [name |-> name, price |-> price,
                                       rating |-> RatingOf(node),
                                       url |-> IF url_val(node) = None
                                               THEN NotAvailable
                                               ELSE url_val(node)]),
              outcome |-> out("appended")]

\* The whole loop over the candidate nodes: the list get_best_sellers returns.
RECURSIVE LoopFrom(_, _, _, _, _)
LoopFrom(nodes, i, sn, ps, limit) ==
    IF i > Len(nodes) THEN ps
    ELSE LET r == LoopBody(nodes[i], sn, ps, limit)
         IN  LoopFrom(nodes, i + 1, r.seen, r.products, limit)

get_best_sellers(nodes, limit) == LoopFrom(nodes, 1, {}, <<>>, limit)

-----------------------------------------------------------------------------
(* The pages the loop is run on *)

MaxNodes == 3

LongStem == [i \in 1..KeyPrefixLen |-> "a"]
LongB == LongStem \o <<"b">>
LongC == LongStem \o <<"c">>

HrefA1 == <<"/", "d", "p", "/", "A", "?", "r">>
HrefA2 == <<"/", "d", "p", "/", "A", "?", "s">>
HrefB == <<"h", "t", "t", "p", ":", "/", "/", "b">>

Anchor(normal, href, text) == [normal |-> normal, href |-> href, text |-> text]

Node(name_tag, anchors, price_tag, rating_tag, strings) ==
    [name_tag |-> name_tag, anchors |-> anchors, price_tag |-> price_tag,
     rating_tag |-> rating_tag, strings |-> strings]

\* a current faceout card: title, link, price and rating elements
Tile499 ==
    Node(<<"W">>, <<Anchor(TRUE, HrefA1, <<"Z">>)>>, <<"R", "4", "9", "9">>,
         <<"4">>, << <<"Z">>, <<"W">>, <<"R", "4", "9", "9">>, <<"4">> >>)
\* the same product matched by a second selector group, at another price
Tile501 ==
    Node(<<" ", "W", " ">>, <<Anchor(TRUE, HrefA2, <<"W">>)>>,
         <<"R", "5", "0", "1">>, Absent,
         << <<" ", "W", " ">>, <<"R", "5", "0", "1">> >>)
\* no title element: the name is the link's text; an absolute href
Tile500 ==
    Node(Absent, <<Anchor(FALSE, Absent, <<"Y">>), Anchor(TRUE, HrefB, <<"V">>)>>,
         <<"R", " ", "5", "0", "0", ".", "0", "0">>, Absent,
         << <<"Y">>, <<"V">>, <<"R", " ", "5", "0", "0", ".", "0", "0">> >>)
\* two long titles that agree on their first 80 characters; no link
LongTile300 ==
    Node(LongB, <<>>, Absent, Absent, <<LongB, <<"R", " ", "3", "0", "0">> >>)
LongTile1199 ==
    Node(LongC, <<>>, <<"R", " ", "1", ",", "1", "9", "9", ".", "5", "0">>, Absent,
         <<LongC, <<"R", " ", "1", ",", "1", "9", "9", ".", "5", "0">> >>)
\* a title element with blank text beside a link with text
BlankTitle ==
    Node(<<" ">>, <<Anchor(TRUE, HrefA1, <<"W">>)>>, <<"R", "4", "9", "9">>,
         Absent, << <<" ">>, <<"W">>, <<"R", "4", "9", "9">> >>)
\* a legacy row: only a /dp/ link, and the price inside a sentence
OffersRow ==
    Node(Absent, <<Anchor(FALSE, HrefA1, <<"W">>)>>, Absent, Absent,
         << <<"W">>, <<"2", "x", "R", "4", "9", "9">> >>)
\* no price anywhere
Unpriced ==
    Node(<<"U">>, <<>>, Absent, <<"5">>, << <<"U">>, <<"5">> >>)
\* a price element whose text starts with an abbreviation point
PointedPrice ==
    Node(<<"U">>, <<>>, <<"x", ".", " ", "R", "4", "9", "9">>, Absent,
         << <<"U">>, <<"x", ".", " ", "R", "4", "9", "9">> >>)
\* neither a title element nor a link
Nameless ==
    Node(Absent, <<Anchor(FALSE, Absent, <<>>)>>, <<"R", "4", "9", "9">>, Absent,
         << <<"R", "4", "9", "9">> >>)

NodePool ==
    {Tile499, Tile501, Tile500, LongTile300, LongTile1199, BlankTitle,
     OffersRow, Unpriced, PointedPrice, Nameless}

\* st.sidebar.number_input("Max price"): the default and one larger value
PriceLimits == {500, 1200}

SeqsUpTo(S, n) == UNION {[1..k -> S] : k \in 0..n}

idleParse == price_text = <<>> /\ parsed = NoPrice
idlePage ==
    /\ product_nodes = <<>> /\ max_price = 500 /\ idx = 1 /\ seen = {}
    /\ products = <<>> /\ outcomes = <<>>
idleScrape == cat = 0 /\ all_items = <<>> /\ results = <<>> /\ failures = {}
NoWidgets ==
    [button |-> "none", use_cache |-> TRUE, auto_email |-> FALSE,
     price_limit |-> 500, send_top_n |-> 10]
NoView == [n |-> 0, live |-> FALSE, catalog |-> <<>>]
idleApp ==
    /\ latest_df = [set |-> FALSE, rows |-> <<>>, live |-> FALSE, catalog |-> <<>>]
    /\ csv_file = [exists |-> FALSE, rows |-> <<>>]
    /\ df = <<>> /\ last_scrape = [done |-> FALSE, catalog |-> <<>>, rows |-> <<>>]
    /\ widgets = NoWidgets
    /\ view = <<>> /\ view_of = NoView /\ runs = 0

-----------------------------------------------------------------------------
(* get_best_sellers over one parsed page *)

InitPage ==
    /\ product_nodes \in SeqsUpTo(NodePool, MaxNodes)
    /\ max_price \in PriceLimits
    /\ idx = 1 /\ seen = {} /\ products = <<>> /\ outcomes = <<>>
    /\ stage = "loop"
    /\ idleParse /\ idleScrape /\ idleApp

\* for node in product_nodes: ...
LoopIteration ==
    /\ stage = "loop"
    /\ idx <= Len(product_nodes)
    /\ LET r == LoopBody(product_nodes[idx], seen, products, max_price)
       IN  /\ seen' = r.seen
           /\ products' = r.products
           /\ outcomes' = Append(outcomes, r.outcome)
    /\ idx' = idx + 1
    /\ UNCHANGED <<product_nodes, max_price, stage, parseVars, scrapeVars, appVars>>

\* return products
ReturnProducts ==
    /\ stage = "loop"
    /\ idx > Len(product_nodes)
    /\ stage' = "returned"
    /\ UNCHANGED <<pageVars, parseVars, scrapeVars, appVars>>

NextPage == LoopIteration \/ ReturnProducts

SpecPage == InitPage /\ [][NextPage]_vars

-----------------------------------------------------------------------------
(* Properties of get_best_sellers (SpecPage) *)

RECURSIVE Ascending(_)
Ascending(S) ==
    IF S = {} THEN <<>>
    ELSE LET m == CHOOSE x \in S : \A y \in S : x <= y
         IN  <<m>> \o Ascending(S \ {m})

Prefix80(name) == IF Len(name) <= 80 THEN name ELSE SubSeq(name, 1, 80)

Processed == 1..Len(outcomes)
Limit == Int2Num(max_price)

\* the candidate records: the nodes a name was resolved for
Named(i) == outcomes[i].step # "no_name"
CandKey(i) == <<Prefix80(outcomes[i].name), outcomes[i].url>>
FirstWithKey(i) ==
    Named(i) /\ \A j \in 1..(i - 1) : Named(j) => CandKey(j) # CandKey(i)
FirstOf(i) == CHOOSE j \in Processed : FirstWithKey(j) /\ CandKey(j) = CandKey(i)
Affordable(i) ==
    outcomes[i].price # NoPrice /\ NumLeq(outcomes[i].price, Limit)

RecKey(r) == <<Prefix80(r.name), IF r.url = NotAvailable THEN None ELSE r.url>>
IsRecordOf(r, i) ==
    /\ r.name = outcomes[i].name
    /\ r.price = outcomes[i].price
    /\ RecKey(r) = CandKey(i)

\* C1: the result of get_best_sellers holds exactly the deduplicated candidate
\* records whose price was parsed and is <= the threshold, in candidate order;
\* a price equal to the threshold is kept, a greater or absent price never.
C1_FilterExact ==
    /\ \A k \in 1..Len(products) :
          products[k].price # NoPrice /\ NumLeq(products[k].price, Limit)
    /\ stage = "returned" =>
          LET kept == Ascending({i \in Processed : FirstWithKey(i) /\ Affordable(i)})
          IN  /\ Len(products) = Len(kept)
              /\ \A k \in 1..Len(kept) : IsRecordOf(products[k], kept[k])

C1_Witness ==
    /\ stage = "returned"
    /\ \E k \in 1..Len(products) : products[k].price = Limit
    /\ \E i \in Processed :
          /\ FirstWithKey(i) /\ outcomes[i].price # NoPrice
          /\ ~ NumLeq(outcomes[i].price, Limit)
    /\ \E i \in Processed : FirstWithKey(i) /\ outcomes[i].price = NoPrice

\* C2: no two records of the result have the same (name[:80], url); the
\* record kept for a key is that of the first candidate with the key, and the
\* records are in candidate order.
C2_NoDuplicateKeys ==
    /\ \A a, b \in 1..Len(products) :
          a < b => RecKey(products[a]) # RecKey(products[b])
    /\ LET app == Ascending({i \in Processed : outcomes[i].step = "appended"})
       IN  /\ Len(products) = Len(app)
           /\ \A k \in 1..Len(app) :
                 IsRecordOf(products[k], app[k]) /\ FirstWithKey(app[k])

C2_Witness ==
    /\ stage = "returned"
    /\ \E i \in Processed : \E k \in 1..Len(products) :
          /\ outcomes[i].step = "duplicate"
          /\ CandKey(i) = RecKey(products[k])
          /\ outcomes[i].name # products[k].name

AfterSymbol(s) ==
    LET i == CHOOSE a \in 1..Len(s) :
                 /\ LooksLikePrice(SubSeq(s, a, Len(s))) /\ s[a] = "R"
                 /\ \E j \in (a + 1)..Len(s) :
                       s[j] \in Digits /\ \A k \in (a + 1)..(j - 1) : s[k] = " "
                 /\ \A b \in 1..(a - 1) :
                       ~ (s[b] = "R" /\ \E j \in (b + 1)..Len(s) :
                            s[j] \in Digits /\ \A k \in (b + 1)..(j - 1) : s[k] = " ")
        d == CHOOSE j \in (i + 1)..Len(s) :
                 s[j] \in Digits /\ \A k \in (i + 1)..(j - 1) : s[k] = " "
    IN  SubSeq(s, d, RunEnd(s, d))

ClaimedPrice(node) ==
    LET tagged == IF node.price_tag # Absent
                  THEN parse_price_text(Strip(node.price_tag))
                  ELSE NoPrice
        hits == {i \in 1..Len(node.strings) : LooksLikePrice(node.strings[i])}
    IN  IF tagged # NoPrice THEN tagged
        ELSE IF hits = {} THEN NoPrice
        ELSE parse_price_text(
                 AfterSymbol(node.strings[CHOOSE i \in hits : \A k \in hits : i <= k]))

\* C9: the price of a node is the normalised text of its price-like element
\* when that is a number, and otherwise the number that directly follows the
\* first currency symbol in the node's text, absent only if there is none.
C9_PriceAfterSymbol ==
    \A i \in Processed :
        outcomes[i].step \in {"no_price", "appended"} =>
            outcomes[i].price = ClaimedPrice(product_nodes[i])

\* C10: the key is recorded before the price is looked at: the result has a
\* record with key k exactly when the first candidate with k has a parsed price
\* <= the threshold, and a record with key k is that first candidate's.
C10_FirstDecides ==
    stage = "returned" =>
        \A i \in Processed :
            Named(i) =>
                LET hits == {k \in 1..Len(products) : RecKey(products[k]) = CandKey(i)}
                IN  /\ hits # {} <=> Affordable(FirstOf(i))
                    /\ \A k \in hits : IsRecordOf(products[k], FirstOf(i))

C10_Witness ==
    /\ stage = "returned"
    /\ \E i \in Processed : \E j \in 1..(i - 1) :
          /\ Named(i) /\ Named(j) /\ CandKey(i) = CandKey(j)
          /\ outcomes[j].step = "no_price"
          /\ outcomes[i].step = "duplicate"
          /\ PriceOf(product_nodes[i]) # NoPrice
          /\ NumLeq(PriceOf(product_nodes[i]), Limit)
          /\ \A k \in 1..Len(products) : RecKey(products[k]) # CandKey(i)

-----------------------------------------------------------------------------
(* parse_price_text over bounded texts (SpecParse) *)

MaxTextLen == 4

TextAlphabet == {"1", "0", ",", ".", "R", "x"}

\* "R 1,199.50" and "no price here"
ExampleRupees == <<"R", " ", "1", ",", "1", "9", "9", ".", "5", "0">>
ExampleWords ==
    <<"n", "o", " ", "p", "r", "i", "c", "e", " ", "h", "e", "r", "e">>

InitParse ==
    /\ price_text \in SeqsUpTo(TextAlphabet, MaxTextLen) \cup {ExampleRupees, ExampleWords}
    /\ parsed = NoPrice
    /\ stage = "call"
    /\ idlePage /\ idleScrape /\ idleApp

ParsePriceText ==
    /\ stage = "call"
    /\ parsed' = parse_price_text(price_text)
    /\ stage' = "returned"
    /\ UNCHANGED <<price_text, pageVars, scrapeVars, appVars>>

NextParse == ParsePriceText

SpecParse == InitParse /\ [][NextParse]_vars

\* The run as the specification words it: digits, commas and at most one point.
RECURSIVE OnePointRunEnd(_, _, _)
OnePointRunEnd(s, j, pointSeen) ==
    IF j < Len(s) /\ (s[j + 1] \in Digits \/ s[j + 1] = ",")
    THEN OnePointRunEnd(s, j + 1, pointSeen)
    ELSE IF j < Len(s) /\ s[j + 1] = "." /\ ~ pointSeen
    THEN OnePointRunEnd(s, j + 1, TRUE)
    ELSE j

NormalizeAsSpecified(text) ==
    LET s == Without(text, "R")
        starts == {i \in 1..Len(s) : InClass(s[i])}
    IN  IF starts = {} THEN NoPrice
        ELSE LET i == CHOOSE a \in starts : \A b \in starts : a <= b
                 run == SubSeq(s, i, OnePointRunEnd(s, i, s[i] = "."))
             IN  PyFloat(Without(run, ","))

\* C4 as claimed: parse_price_text yields what the specified algorithm yields,
\* whose run holds at most one decimal point.
C4_AsSpecified ==
    stage = "returned" => parsed = NormalizeAsSpecified(price_text)

\* C4 as amended: the run is the first maximal run of digits, commas and
\* points, however many points; with the commas removed it is parsed as a
\* decimal number; the result is absent exactly when there is no run, the run
\* has no digit, or it has more than one point.
C4_AnyPoints ==
    stage = "returned" =>
        LET s == SelectSeq(price_text, LAMBDA c : c # "R")
            starts == {i \in 1..Len(s) : InClass(s[i])}
            i == CHOOSE a \in starts : \A b \in starts : a <= b
            j == CHOOSE b \in i..Len(s) :
                     /\ \A k \in i..b : InClass(s[k])
                     /\ b = Len(s) \/ ~ InClass(s[b + 1])
            clean == SelectSeq(SubSeq(s, i, j), LAMBDA c : c # ",")
            points == {k \in 1..Len(clean) : clean[k] = "."}
            digits == SelectSeq(clean, LAMBDA c : c \in Digits)
            fracLen == IF points = {} THEN 0
                       ELSE Len(clean) - (CHOOSE k \in points : TRUE)
        IN  /\ parsed = NoPrice <=>
                  starts = {} \/ digits = <<>> \/ Cardinality(points) > 1
            /\ parsed # NoPrice =>
                  /\ parsed.m >= 0
                  /\ parsed.m * Pow10(fracLen) = DigitsValue(digits) * Pow10(parsed.e)
                  /\ parsed.e = 0 \/ parsed.m % 10 # 0
            /\ price_text = ExampleRupees => parsed = [m |-> 11995, e |-> 1]
            /\ price_text = ExampleWords => parsed = NoPrice

C4_Witness ==
    /\ stage = "returned"
    /\ price_text = <<"1", ".", "0", ".">>
    /\ parsed = NoPrice
    /\ NormalizeAsSpecified(price_text) = [m |-> 1, e |-> 0]

-----------------------------------------------------------------------------
(* scrape_all_categories (SpecScrape) *)

NumCategories == 3
MaxPageNodes == 1

\* CATEGORIES, in the order the dict is iterated
CategoryNames ==
    <<"Books", "Toys & Games", "Home & Kitchen", "Beauty", "Electronics",
      "Grocery", "Stationery", "Fashion", "Sports">>

ScrapePool == {Tile499, Tile500, Tile501}

Stamped(items, label) ==
    [k \in 1..Len(items) |->
        [name |-> items[k].name, price |-> items[k].price,
         rating |-> items[k].rating, url |-> items[k].url, category |-> label]]

InitScrape ==
    /\ cat = 1 /\ all_items = <<>> /\ results = <<>> /\ failures = {}
    /\ max_price \in PriceLimits
    /\ product_nodes = <<>> /\ idx = 1 /\ seen = {} /\ products = <<>>
    /\ outcomes = <<>>
    /\ stage = "call"
    /\ idleParse /\ idleApp

\* get_best_sellers(cat_url, ...): driver = init_driver(...)
StartDriver ==
    /\ stage = "call" /\ cat <= NumCategories
    /\ stage' = "driver"
    /\ product_nodes' = <<>> /\ idx' = 1 /\ seen' = {} /\ products' = <<>>
    /\ outcomes' = <<>>
    /\ UNCHANGED <<max_price, parseVars, scrapeVars, appVars>>

\* driver.get(url) and the wait, whose own timeout is swallowed
LoadPage ==
    /\ stage = "driver"
    /\ stage' = "loaded"
    /\ UNCHANGED <<pageVars, parseVars, scrapeVars, appVars>>

\* the scroll loops
ScrollPage ==
    /\ stage = "loaded"
    /\ stage' = "scrolled"
    /\ UNCHANGED <<pageVars, parseVars, scrapeVars, appVars>>

\* BeautifulSoup(html) and the four select calls: the candidate nodes
ParsePage ==
    /\ stage = "scrolled"
    /\ \E nodes \in SeqsUpTo(ScrapePool, MaxPageNodes) : product_nodes' = nodes
    /\ stage' = "loop"
    /\ UNCHANGED <<max_price, idx, seen, products, outcomes, parseVars,
                   scrapeVars, appVars>>

\* a variant without the except clause: the exception leaves the function
ScrapeErrorPropagates ==
    /\ stage \in {"call", "driver", "loaded", "scrolled", "loop"}
    /\ cat <= NumCategories
    /\ stage' = "raised"
    /\ UNCHANGED <<pageVars, parseVars, scrapeVars, appVars>>

\* except Exception: return [] (finally: driver.quit()), wherever the try
\* block raised
ScrapeError ==
    /\ stage \in {"call", "driver", "loaded", "scrolled", "loop"}
    /\ cat <= NumCategories
    /\ products' = <<>>
    /\ failures' = failures \cup {cat}
    /\ stage' = "returned"
    /\ UNCHANGED <<product_nodes, max_price, idx, seen, outcomes, parseVars,
                   cat, all_items, results, appVars>>

\* a variant that drops a record already present under an earlier category
ExtendDeduplicated ==
    /\ stage = "returned"
    /\ all_items' =
          all_items \o
          SelectSeq(Stamped(products, CategoryNames[cat]),
                    LAMBDA it : \A k \in 1..Len(all_items) :
                        <<all_items[k].name, all_items[k].url>> # <<it.name, it.url>>)
    /\ results' = Append(results, products)
    /\ cat' = cat + 1
    /\ stage' = "call"
    /\ UNCHANGED <<pageVars, parseVars, failures, appVars>>

\* it["Category"] = cat_name; all_items.extend(items)
ExtendAllItems ==
    /\ stage = "returned"
    /\ all_items' = all_items \o Stamped(products, CategoryNames[cat])
    /\ results' = Append(results, products)
    /\ cat' = cat + 1
    /\ stage' = "call"
    /\ UNCHANGED <<pageVars, parseVars, failures, appVars>>

\* return pd.DataFrame(all_items)
ReturnFrame ==
    /\ stage = "call" /\ cat > NumCategories
    /\ df' = all_items
    /\ stage' = "done"
    /\ UNCHANGED <<pageVars, parseVars, scrapeVars, latest_df, csv_file,
                   last_scrape, widgets, view, view_of, runs>>

NextScrape ==
    \/ StartDriver \/ LoadPage \/ ScrollPage \/ ParsePage \/ LoopIteration
    \/ ReturnProducts \/ ScrapeError \/ ExtendAllItems \/ ReturnFrame

SpecScrape == InitScrape /\ [][NextScrape]_vars

RECURSIVE StampedConcat(_, _)
StampedConcat(rs, n) ==
    IF n = 0 THEN <<>>
    ELSE StampedConcat(rs, n - 1) \o
         [k \in 1..Len(rs[n]) |->
             [name |-> rs[n][k].name, price |-> rs[n][k].price,
              rating |-> rs[n][k].rating, url |-> rs[n][k].url,
              category |-> CategoryNames[n]]]

\* C5: the catalog is the concatenation, in category order, of what
\* get_best_sellers returned for each category, taken once and stamped with
\* that category's label; nothing is dropped for having appeared under an
\* earlier category.
C5_Concatenation ==
    /\ Len(results) = cat - 1
    /\ all_items = StampedConcat(results, Len(results))
    /\ stage = "done" =>
          /\ Len(results) = NumCategories
          /\ df = StampedConcat(results, NumCategories)

C5_Witness ==
    /\ stage = "done"
    /\ \E a, b \in 1..Len(df) :
          /\ a < b
          /\ df[a].name = df[b].name /\ df[a].url = df[b].url
          /\ df[a].category = CategoryNames[1]
          /\ df[b].category = CategoryNames[2]

\* C6: a category whose scrape fails contributes no record; the fault stops
\* nothing: the scrape goes on to the remaining categories and ends with every
\* category processed, the records of the other categories in place.
C6_FailureIsolated ==
    /\ \A c \in failures : c <= Len(results) => results[c] = <<>>
    /\ stage = "returned" /\ cat \in failures => products = <<>>
    /\ all_items = StampedConcat([c \in 1..Len(results) |->
                                     IF c \in failures THEN <<>> ELSE results[c]],
                                 Len(results))
    /\ stage # "raised"
    /\ stage = "done" => Len(results) = NumCategories

C6_Witness ==
    /\ stage = "done"
    /\ failures = {2}
    /\ results[1] # <<>> /\ results[3] # <<>>
    /\ df = Stamped(results[1], CategoryNames[1]) \o Stamped(results[3], CategoryNames[3])

-----------------------------------------------------------------------------
(* The Streamlit script: live scrape, cached load, ranked views (SpecApp) *)

MaxRuns == 2

\* scrape_all_categories as a function of the pages served and of the
\* categories whose scrape raises
RECURSIVE ScrapeUpTo(_, _, _, _)
ScrapeUpTo(site, down, limit, n) ==
    IF n = 0 THEN <<>>
    ELSE ScrapeUpTo(site, down, limit, n - 1) \o
         Stamped(IF n \in down THEN <<>> ELSE get_best_sellers(site[n], limit),
                 CategoryNames[n])

scrape_all_categories(site, down, limit) ==
    ScrapeUpTo(site, down, limit, NumCategories)

Tile300 ==
    Node(<<"T">>, <<>>, <<"R", "3", "0", "0">>, Absent,
         << <<"T">>, <<"R", "3", "0", "0">> >>)

\* what the marketplace serves: the same two products under the first two
\* categories, a third product under the first, one dearer product under the
\* others; or a single product; or nothing
SiteBusy ==
    [c \in 1..NumCategories |->
        IF c = 1 THEN <<Tile499, Tile500, Tile300>>
        ELSE IF c = 2 THEN <<Tile499, Tile500, Unpriced>>
        ELSE <<Tile501>>]
SiteSmall == [c \in 1..NumCategories |-> IF c = 1 THEN <<Tile500>> ELSE <<>>]
SiteBare == [c \in 1..NumCategories |-> <<Unpriced>>]
Sites == {SiteBusy, SiteSmall, SiteBare}

Cheaper(a, b) == ~ NumLeq(b.price, a.price)

Drop(rows, i) == SubSeq(rows, 1, i - 1) \o SubSeq(rows, i + 1, Len(rows))

Take(rows, n) == SubSeq(rows, 1, Min(n, Len(rows)))

Lowest(rows) == {i \in 1..Len(rows) : \A k \in 1..Len(rows) : ~ Cheaper(rows[k], rows[i])}

\* a stable ascending sort by price
RECURSIVE StableSort(_)
StableSort(rows) ==
    IF rows = <<>> THEN <<>>
    ELSE LET i == CHOOSE a \in Lowest(rows) : \A b \in Lowest(rows) : a <= b
         IN  <<rows[i]>> \o StableSort(Drop(rows, i))

\* sort_values(by="Price"): kind defaults to "quicksort", which pandas
\* documents as not stable (numpy's introsort), so rows of equal price come out
\* in an order the call does not fix: every ascending arrangement of the rows.
RECURSIVE SortOrders(_)
SortOrders(rows) ==
    IF rows = <<>> THEN {<<>>}
    ELSE UNION {{<<rows[i]>> \o rest : rest \in SortOrders(Drop(rows, i))} :
                   i \in Lowest(rows)}

sort_values(rows) == SortOrders(rows)

\* DataFrame.nsmallest(n, "Price"), keep="first": below the frame's length the
\* n smallest rows, first occurrences first; from the frame's length on pandas
\* returns sort_values(...).head(n)
nsmallest(rows, n) ==
    IF n >= Len(rows) THEN {Take(r, n) : r \in SortOrders(rows)}
    ELSE {Take(StableSort(rows), n)}

\* pd.read_csv of what df.to_csv(index=False) wrote: "N/A" and the empty
\* string are among read_csv's default NA values
NaN == <<"NaN">>
ReadField(text) == IF text = NotAvailable \/ text = <<>> THEN NaN ELSE text
read_csv(rows) ==
    [k \in 1..Len(rows) |->
        [name |-> ReadField(rows[k].name), price |-> rows[k].price,
         rating |-> ReadField(rows[k].rating), url |-> ReadField(rows[k].url),
         category |-> rows[k].category]]

\* a snapshot an earlier session saved
OldSnapshot ==
    sort_values(scrape_all_categories(SiteSmall, {}, 500))

\* st.selectbox options (the first two) and the fixed counts
SendOptions == {5, 10}
AutoEmailCount == 10
TopGemsCount == 12

WidgetStates ==
    [button : {"none", "refresh", "send"}, use_cache : BOOLEAN,
     auto_email : BOOLEAN, price_limit : PriceLimits, send_top_n : SendOptions]

InitApp ==
    /\ latest_df = [set |-> FALSE, rows |-> <<>>, live |-> FALSE, catalog |-> <<>>]
    /\ \/ csv_file = [exists |-> FALSE, rows |-> <<>>]
       \/ \E old \in OldSnapshot : csv_file = [exists |-> TRUE, rows |-> old]
    /\ df = <<>> /\ last_scrape = [done |-> FALSE, catalog |-> <<>>, rows |-> <<>>]
    /\ widgets = NoWidgets
    /\ view = <<>> /\ view_of = NoView /\ runs = 0
    /\ stage = "idle"
    /\ idleParse /\ idlePage /\ idleScrape

\* any interaction reruns the script top to bottom with the widgets' values
Rerun ==
    /\ stage = "idle" /\ runs < MaxRuns
    /\ \E w \in WidgetStates :
          /\ w.button # "send" => w.send_top_n = 10
          /\ w.button # "refresh" => ~ w.auto_email
          /\ widgets' = w
    /\ runs' = runs + 1
    /\ stage' = "col1"
    /\ UNCHANGED <<pageVars, parseVars, scrapeVars, latest_df, csv_file, df,
                   last_scrape, view, view_of>>

\* if st.button("Refresh Best Sellers"): the whole live-scrape branch
LiveScrape ==
    /\ stage = "col1" /\ widgets.button = "refresh"
    /\ \E site \in Sites, down \in {{}, {1}}, saved \in BOOLEAN :
          LET catalog == scrape_all_categories(site, down, widgets.price_limit)
          IN  /\ IF catalog = <<>>
                 THEN /\ df' = catalog
                      /\ last_scrape' = [done |-> TRUE, catalog |-> catalog,
                                         rows |-> catalog]
                      /\ UNCHANGED <<latest_df, csv_file, view, view_of>>
                 ELSE \E sorted \in sort_values(catalog) :
                      /\ df' = sorted
                      /\ last_scrape' = [done |-> TRUE, catalog |-> catalog,
                                         rows |-> sorted]
                      /\ csv_file' = IF saved
                                     THEN [exists |-> TRUE, rows |-> sorted]
                                     ELSE csv_file
                      /\ latest_df' = [set |-> TRUE, rows |-> sorted,
                                       live |-> TRUE, catalog |-> catalog]
                      /\ IF widgets.auto_email
                         THEN /\ view' \in nsmallest(sorted, AutoEmailCount)
                              /\ view_of' = [n |-> AutoEmailCount, live |-> TRUE,
                                             catalog |-> catalog]
                         ELSE /\ view' = sorted
                              /\ view_of' = [n |-> Len(sorted), live |-> TRUE,
                                             catalog |-> catalog]
    /\ stage' = "col2"
    /\ UNCHANGED <<pageVars, parseVars, scrapeVars, widgets, runs>>

\* the button was not clicked
NoScrape ==
    /\ stage = "col1" /\ widgets.button # "refresh"
    /\ stage' = "col2"
    /\ UNCHANGED <<pageVars, parseVars, scrapeVars, appVars>>

\* if use_cache and CSV_PATH.exists(): ... latest_df = cached_df
QuickLoad ==
    /\ stage = "col2"
    /\ latest_df' = IF widgets.use_cache /\ csv_file.exists
                    THEN [set |-> TRUE, rows |-> read_csv(csv_file.rows),
                          live |-> FALSE, catalog |-> <<>>]
                    ELSE latest_df
    /\ stage' = "email"
    /\ UNCHANGED <<pageVars, parseVars, scrapeVars, csv_file, df, last_scrape,
                   widgets, view, view_of, runs>>

\* if st.button("Send Top Deals Email"): latest_df.nsmallest(send_top_n, ...)
SendTopDeals ==
    /\ stage = "email"
    /\ IF latest_df.set /\ latest_df.rows # <<>> /\ widgets.button = "send"
       THEN /\ view' \in nsmallest(latest_df.rows, widgets.send_top_n)
            /\ view_of' = [n |-> widgets.send_top_n, live |-> latest_df.live,
                           catalog |-> latest_df.catalog]
       ELSE UNCHANGED <<view, view_of>>
    /\ stage' = "gems"
    /\ UNCHANGED <<pageVars, parseVars, scrapeVars, latest_df, csv_file, df,
                   last_scrape, widgets, runs>>

\* "Top cheap gems": latest_df.nsmallest(12, ...)
TopCheapGems ==
    /\ stage = "gems"
    /\ IF latest_df.set /\ latest_df.rows # <<>>
       THEN /\ view' \in nsmallest(latest_df.rows, TopGemsCount)
            /\ view_of' = [n |-> TopGemsCount, live |-> latest_df.live,
                           catalog |-> latest_df.catalog]
       ELSE UNCHANGED <<view, view_of>>
    /\ stage' = "idle"
    /\ UNCHANGED <<pageVars, parseVars, scrapeVars, latest_df, csv_file, df,
                   last_scrape, widgets, runs>>

NextApp ==
    \/ Rerun \/ LiveScrape \/ NoScrape \/ QuickLoad \/ SendTopDeals
    \/ TopCheapGems

SpecApp == InitApp /\ [][NextApp]_vars

-----------------------------------------------------------------------------
(* Properties of the script (SpecApp) *)

\* C3: a ranked view taken of a scraped catalog is the first min(n, |catalog|)
\* records of the catalog sorted ascending by price, records of equal price in
\* their arrival order (category order, then document order).
C3_StableRanking ==
    view_of.live => view = Take(StableSort(view_of.catalog), view_of.n)

\* C7: once a live scrape has completed, the latest-results state is the
\* catalog that most recent scrape produced, also when that catalog is empty
\* or could not be saved, and through later reruns.
C7_LatestIsLastScrape ==
    stage = "idle" /\ last_scrape.done =>
        (IF latest_df.set THEN latest_df.rows ELSE <<>>) = last_scrape.rows

=============================================================================
